---- MODULE Spec2Model ----
(***************************************************************************)
(* jira-local-sync: the Remote Client (jira_client.py), the Orchestrator  *)
(* (processor.py) and the Document Renderer (markdown_converter.py) as a  *)
(* state machine.                                                          *)
(*                                                                         *)
(* The tracking service is a deterministic store of `total` matching      *)
(* issues whose keys are 1..total in service order.  Every remote call    *)
(* (page request, comment fetch, server-info, session construction) may   *)
(* succeed or fail; the outcome is an input of the step that makes it.    *)
(*                                                                         *)
(* A document is the sequence of its lines, a line the sequence of the    *)
(* pieces its f-string puts together.                                      *)
(***************************************************************************)
EXTENDS Integers, Sequences, FiniteSets, TLC

VARIABLES
    total,            \* store: number of issues matching the query
    max_results,      \* argument of search_issues / process_issues
    include_comments, \* JiraProcessor.include_comments
    include_attachments, \* JiraProcessor.include_attachments
    missingFields,    \* store: keys whose record lacks a field the renderer reads
    _client,          \* JiraClient._client: 0 is None, n > 0 the n-th session object
    sessionsCreated,  \* number of JIRA(...) session objects constructed so far
    connectAttempts,  \* number of connect() runs so far
    handshaken,       \* the set of sessions whose server_info handshake succeeded
    settings,         \* the JiraSettings object the JiraClient was given
    sessionArgs,      \* the arguments JIRA(...) was given for each session object
    searchPc,         \* search_issues frame: "idle", "loop", "returned", "raised"
    issues,           \* search_issues local `issues`
    start_at,         \* search_issues local `start_at`
    requestLog,       \* every page request issued: startAt, maxResults, outcome
    searchResult,     \* what search_issues returned (None until it returns)
    searchError,      \* what search_issues raised ("none" until it raises)
    genState,         \* process_issues generator: "none", "created", "running",
                      \*   "suspended" (at the yield), "done", "raised"
    genPc,            \* where a running generator is: "search", "item", "render"
    pending,          \* a consumer request for the next element is outstanding
    demand,           \* number of elements the consumer is going to request
    nextCalls,        \* number of next() requests the consumer has made
    idx,              \* 1-based position of the for-loop in `issues`
    comments,         \* process_issues local `comments`
    yielded,          \* the (key, document) pairs delivered to the consumer
    genError,         \* what the generator raised to the consumer
    renderLog,        \* every issue_to_markdown call: key, comments argument, outcome
    commentLog,       \* every get_issue_comments call: key, outcome
    clientProbe,      \* last result of JiraClient.test_connection
    processorProbe,   \* last result of JiraProcessor.test_connection
    lastCall,         \* last direct call of get_issue / get_issue_comments
    singleCall,       \* last run of process_single_issue: what it called and gave
    convIn,           \* arguments of the direct MarkdownConverter calls
    convOut           \* last direct MarkdownConverter call and its result

vars == << total, max_results, include_comments, include_attachments, missingFields,
           demand, settings,
           _client, sessionsCreated, connectAttempts, handshaken, sessionArgs,
           searchPc, issues, start_at, requestLog, searchResult, searchError,
           genState, genPc, pending, nextCalls, idx, comments, yielded, genError,
           renderLog, commentLog, clientProbe, processorProbe, lastCall,
           singleCall, convIn, convOut >>

envVars == << total, max_results, include_comments, include_attachments, missingFields,
             demand, settings >>
sessionVars == << _client, sessionsCreated, connectAttempts, handshaken,
                 sessionArgs >>
searchVars == << searchPc, issues, start_at, requestLog, searchResult, searchError >>
genVars == << genState, genPc, pending, nextCalls, idx, comments, yielded, genError,
              renderLog, commentLog >>
probeVars == << clientProbe, processorProbe, lastCall >>
callVars == << singleCall, convIn, convOut >>

----------------------------------------------------------------------------
(* Bounds of the model *)

\* issues in the store of the streaming specification
MaxIssues == 3
\* full pages in the store of the pagination specification
MaxPages == 2
\* connect() runs in one behaviour
MaxConnects == 2
\* elements the consumer requests in the pagination specification
PagesDemand == 2

\* issues in the store of the single-issue specification
MaxSingle == 2

\* comments in the comments argument of a direct converter call
MaxComments == 2
\* attachments of the issue of a direct converter call
MaxAttachments == 2
\* labels of the issue of a direct converter call
MaxLabels == 2
\* gibibytes of the largest byte counts given to _format_file_size
MaxGiB == 2

\* requests for the next element one consumer makes: enough to exhaust MaxIssues
MaxDemand == MaxIssues + 1

----------------------------------------------------------------------------
(* Python values *)

\* Optional values: None, or a value that is present.
None == [isNone |-> TRUE, val |-> <<>>]
Some(v) == [isNone |-> FALSE, val |-> <<v>>]
Get(o) == o.val[1]

\* Python truthiness of an Optional[int]: None and 0 are falsy.
TruthyInt(o) == (~o.isNone) /\ Get(o) # 0
\* Python truthiness of an Optional[list]: None and [] are falsy.
TruthyList(o) == (~o.isNone) /\ Get(o) # <<>>

Min(a, b) == IF a < b THEN a ELSE b

\* lst[:n] for n >= 0
Take(lst, n) == SubSeq(lst, 1, Min(n, Len(lst)))

\* exceptions a remote call raises: a protocol error or any other error
ErrorKinds == {"JIRAError", "Exception"}
RemoteOutcomes == {"ok"} \cup ErrorKinds

----------------------------------------------------------------------------
(* Records of the tracking service as the renderer reads them *)

\* An attribute of a duck-typed record: missing (hasattr is false), present
\* and None, or present with a value.
Absent == [has |-> FALSE, val |-> <<>>]
Null == [has |-> TRUE, val |-> <<>>]
Attr(v) == [has |-> TRUE, val |-> <<v>>]
HasAttr(a) == a.has
AttrVal(a) == a.val[1]

\* `hasattr(fields, name) and fields.name` for an object-valued attribute
TruthyAttr(a) == a.has /\ a.val # <<>>
\* the same test for a list-valued attribute: [] is falsy
TruthyListAttr(a) == a.has /\ a.val # <<>> /\ AttrVal(a) # <<>>
\* `not description` negated, for a string-valued attribute: "" is falsy
TruthyTextAttr(a) == a.has /\ a.val # <<>> /\ AttrVal(a) # ""

\* timestamps: a string the service sends, as its parts.  A well-formed one
\* is date, "T", hour:minute, seconds and zone; anything else is one part.
DateOk == << "2025-12-11", "T", "10:30", ":45.123", "-0400" >>
DateUtc == << "2025-01-15", "T", "08:05", ":00.000", "Z" >>
DateLocal == << "2025-03-01", "T", "23:59", ":59", "" >>
DateBad == << "yesterday" >>
DateEmpty == << >>

\* date_str.replace('Z', '+00:00')
ReplaceZ(d) == [i \in 1..Len(d) |-> IF d[i] = "Z" THEN "+00:00" ELSE d[i]]

\* datetime.fromisoformat accepts the string
IsIsoFormat(d) == Len(d) = 5 /\ d[2] = "T"

\* datetime.fromisoformat: the fields of the timestamp as written, no
\* conversion to another zone; ValueError for anything else
fromisoformat(d) ==
    IF IsIsoFormat(d)
    THEN [raised |-> FALSE,
          dt |-> [date |-> d[1], time |-> d[3], seconds |-> d[4], tzinfo |-> d[5]]]
    ELSE [raised |-> TRUE, dt |-> << >>]

\* dt.strftime("%Y-%m-%d %H:%M")
strftime(dt) == << dt.date, " ", dt.time >>

\* a mutant of DateExcept: the parse error is raised again
DateExcept_Reraise(d) == [raised |-> TRUE, out |-> d]

\* _format_date, `except Exception`: log and return date_str
DateExcept(d) == [raised |-> FALSE, out |-> d]

\* the try statement of _format_date: what it returns, or that it raised
TryFormatDate(d) ==
    LET parsed == fromisoformat(ReplaceZ(d))
    IN IF parsed.raised THEN DateExcept(d)
       ELSE [raised |-> FALSE, out |-> strftime(parsed.dt)]

\* MarkdownConverter._format_date: "%Y-%m-%d %H:%M" of the parsed timestamp,
\* the input unchanged when it does not parse
_format_date(d) == TryFormatDate(d).out

\* the units of _format_file_size
KB == 1024
MB == 1024 * 1024
GB == 1024 * 1024 * 1024

\* A byte count is held as kib * 1024 + rem with rem < 1024, so that counts
\* of 2^31 bytes and more stay within the integers of the checker.
Bytes(kib, rem) == [kib |-> kib, rem |-> rem]
BytesOf(n) == Bytes(n \div KB, n % KB)

\* f"{n / unit:.1f}" for n = kib * 1024 + rem and unit = unitKib * 1024:
\* n / unit rounded to one decimal, ties to the even tenth
OneDecimal(kib, rem, unitKib) ==
    LET a == (10 * rem) \div KB
        b == (10 * rem) % KB
        m == 10 * kib + a
        down == m \div unitKib
        rest == (m % unitKib) * KB + b
        half == unitKib * (KB \div 2)
        up == \/ rest > half
              \/ (rest = half /\ down % 2 = 1)
        tenths == IF up THEN down + 1 ELSE down
    IN << tenths \div 10, ".", tenths % 10 >>

\* a mutant of FileSizeText: a count of exactly one unit stays in the
\* smaller unit
FileSizeText_Inclusive(size) ==
    IF size.kib = 0 THEN << size.rem, " B" >>
    ELSE IF size.kib < KB \/ size = Bytes(KB, 0)
    THEN OneDecimal(size.kib, size.rem, 1) \o << " KB" >>
    ELSE IF size.kib < MB \/ size = Bytes(MB, 0)
    THEN OneDecimal(size.kib, size.rem, KB) \o << " MB" >>
    ELSE OneDecimal(size.kib, size.rem, MB) \o << " GB" >>

\* MarkdownConverter._format_file_size on a byte count held as Bytes: the
\* tests size_bytes < 1024, < 1024 * 1024, < 1024 * 1024 * 1024 are tests on
\* the kib part
FileSizeText(size) ==
    IF size.kib = 0 THEN << size.rem, " B" >>
    ELSE IF size.kib < KB THEN OneDecimal(size.kib, size.rem, 1) \o << " KB" >>
    ELSE IF size.kib < MB THEN OneDecimal(size.kib, size.rem, KB) \o << " MB" >>
    ELSE OneDecimal(size.kib, size.rem, MB) \o << " GB" >>

\* MarkdownConverter._format_file_size on an integer byte count
_format_file_size(size_bytes) == FileSizeText(BytesOf(size_bytes))

\* the markup texts of the model; the last one is malformed
Markup == {"h2. Title", "*bold*", "plain text", "{code:unclosed"}

\* jira2markdown.convert: the markdown of a markup text, or an exception
jira_to_md(text) ==
    CASE text = "h2. Title" -> [raised |-> FALSE, out |-> "## Title"]
      [] text = "*bold*" -> [raised |-> FALSE, out |-> "**bold**"]
      [] text = "plain text" -> [raised |-> FALSE, out |-> "plain text"]
      [] OTHER -> [raised |-> TRUE, out |-> ""]

\* a mutant of MarkupExcept: the conversion error is raised again
MarkupExcept_Reraise(text) == [raised |-> TRUE, out |-> text]

\* convert_jira_markup, `except Exception`: log and return the text
MarkupExcept(text) == [raised |-> FALSE, out |-> text]

\* the body of convert_jira_markup on an Optional[str]: whether jira_to_md
\* was invoked, what is returned, or that it raised
TryConvert(text) ==
    IF text.isNone \/ Get(text) = ""
    THEN [invoked |-> FALSE, raised |-> FALSE, out |-> ""]
    ELSE LET r == jira_to_md(Get(text))
             h == MarkupExcept(Get(text))
         IN IF r.raised
            THEN [invoked |-> TRUE, raised |-> h.raised, out |-> h.out]
            ELSE [invoked |-> TRUE, raised |-> FALSE, out |-> r.out]

\* MarkdownConverter.convert_jira_markup on an Optional[str]
convert_jira_markup(text) == TryConvert(text).out

\* the complete record of the issue with this key
BaseIssue(key) ==
    [key |-> key,
     summary |-> Attr("Fix login"),
     issuetype |-> Attr("Bug"),
     status |-> Attr("Open"),
     priority |-> Attr("High"),
     assignee |-> Attr("Alice"),
     reporter |-> Attr("Bob"),
     created |-> Attr(DateOk),
     updated |-> Attr(DateUtc),
     parent |-> Attr([key |-> 0, summary |-> "Epic"]),
     sprint |-> Attr("Sprint 7"),
     labels |-> Attr(<< "backend", "urgent" >>),
     description |-> Attr("*bold*"),
     attachment |-> Attr(<< >>)]

\* the record the service returns for a key: a restricted `fields` set
\* leaves the summary out
Record(key) ==
    IF key \in missingFields
    THEN [BaseIssue(key) EXCEPT !.summary = Absent]
    ELSE BaseIssue(key)

\* the comment the service holds for an issue
CommentOf(key) ==
    [id |-> key, author |-> Attr("Alice"), created |-> Attr(DateOk),
     body |-> Some("plain text")]

----------------------------------------------------------------------------
(* The tracking service *)

\* the matching issues in service order
Store == [i \in 1..total |-> i]

\* one page of the search: at most maxResults records from offset startAt
ServicePage(startAt, maxResults) ==
    SubSeq(Store, startAt + 1, Min(startAt + maxResults, total))

\* the comments the service holds for an issue: odd keys carry one comment
ServiceComments(key) == IF key % 2 = 1 THEN << CommentOf(key) >> ELSE << >>

----------------------------------------------------------------------------
(* JiraClient: session *)

ConnectOutcomes == {"ok", "ctor_fail", "handshake_fail"}

\* JiraSettings as constructed from the environment (config.py)
Constructed ==
    [jira_url |-> "https://old.atlassian.net", jira_email |-> "old@example.com",
     jira_api_token |-> "old-token"]

\* the values a caller may assign to the fields of a JiraSettings object
SettingValues ==
    [jira_url |-> {"https://old.atlassian.net", "https://new.atlassian.net"},
     jira_email |-> {"old@example.com", "new@example.com"},
     jira_api_token |-> {"old-token", "new-token"}]

\* JiraSettings.get_jira_auth
get_jira_auth(st) == << st.jira_email, st.jira_api_token >>

\* a mutant of ConnectArgs: the session is built from the values the
\* settings were constructed with
ConnectArgs_Snapshot(st) ==
    [server |-> Constructed.jira_url, basic_auth |-> get_jira_auth(Constructed)]

\* JiraClient.connect, the arguments of JIRA(...): read from self.settings
\* when connect runs
ConnectArgs(st) == [server |-> st.jira_url, basic_auth |-> get_jira_auth(st)]

Session == [client |-> _client, created |-> sessionsCreated,
            attempts |-> connectAttempts, shaken |-> handshaken,
            args |-> sessionArgs]

\* a mutant of connect: a failed handshake drops the session just constructed
connect_DropOnFailure(s, co) ==
    IF co = "ctor_fail"
    THEN [s |-> [s EXCEPT !.attempts = @ + 1], raised |-> "Exception"]
    ELSE LET n == s.created + 1
             t == [s EXCEPT !.attempts = @ + 1, !.created = n, !.client = n,
                        !.args = Append(@, ConnectArgs(settings))]
         IN IF co = "handshake_fail"
            THEN [s |-> [t EXCEPT !.client = 0], raised |-> "JIRAError"]
            ELSE [s |-> [t EXCEPT !.shaken = @ \cup {n}], raised |-> "none"]

\* JiraClient.connect: construct the session, then the server_info handshake.
\* A failing constructor leaves _client as it was; a failing handshake leaves
\* the session just assigned.  Both re-raise.
connect(s, co) ==
    IF co = "ctor_fail"
    THEN [s |-> [s EXCEPT !.attempts = @ + 1], raised |-> "Exception"]
    ELSE LET n == s.created + 1
             t == [s EXCEPT !.attempts = @ + 1, !.created = n, !.client = n,
                        !.args = Append(@, ConnectArgs(settings))]
         IN IF co = "handshake_fail"
            THEN [s |-> t, raised |-> "JIRAError"]
            ELSE [s |-> [t EXCEPT !.shaken = @ \cup {n}], raised |-> "none"]

\* a mutant of NeedsConnect: connect on every access
NeedsConnect_Always(c) == TRUE

\* JiraClient.client, the test `self._client is None`
NeedsConnect(c) == c = 0

\* JiraClient.client: connect if needed, then hand out the session
client(s, co) ==
    IF NeedsConnect(s.client) THEN connect(s, co) ELSE [s |-> s, raised |-> "none"]

\* the connect outcomes an access of the client property can meet
Outcomes(s) == IF NeedsConnect(s.client) THEN ConnectOutcomes ELSE {"ok"}

CanAccess == NeedsConnect(_client) => connectAttempts < MaxConnects

SetSession(s) ==
    /\ _client' = s.client
    /\ sessionsCreated' = s.created
    /\ connectAttempts' = s.attempts
    /\ handshaken' = s.shaken
    /\ sessionArgs' = s.args

----------------------------------------------------------------------------
(* JiraClient.search_issues *)

batch_size == 100

\* a mutant of SearchStep: a full-size batch is taken for the last one
SearchStep_LastIfFull(iss, start, batch, limit) ==
    IF batch = <<>>
    THEN [pc |-> "returned", issues |-> iss, start_at |-> start]
    ELSE LET acc == iss \o batch
         IN IF TruthyInt(limit) /\ Len(acc) >= Get(limit)
            THEN [pc |-> "returned", issues |-> Take(acc, Get(limit)), start_at |-> start]
            ELSE IF Len(batch) <= batch_size
                 THEN [pc |-> "returned", issues |-> acc, start_at |-> start]
                 ELSE [pc |-> "loop", issues |-> acc, start_at |-> start + batch_size]

\* a mutant of SearchStep: an empty first batch is reported as an error
SearchStep_RaiseOnEmpty(iss, start, batch, limit) ==
    IF batch = <<>>
    THEN [pc |-> IF iss = <<>> THEN "raised" ELSE "returned",
          issues |-> iss, start_at |-> start]
    ELSE LET acc == iss \o batch
         IN IF TruthyInt(limit) /\ Len(acc) >= Get(limit)
            THEN [pc |-> "returned", issues |-> Take(acc, Get(limit)), start_at |-> start]
            ELSE IF Len(batch) < batch_size
                 THEN [pc |-> "returned", issues |-> acc, start_at |-> start]
                 ELSE [pc |-> "loop", issues |-> acc, start_at |-> start + batch_size]

\* a mutant of SearchStep: the limit truncates the result but does not end
\* the paging
SearchStep_PageOn(iss, start, batch, limit) ==
    IF batch = <<>>
    THEN [pc |-> "returned", issues |-> iss, start_at |-> start]
    ELSE LET acc == iss \o batch
             cut == IF TruthyInt(limit) /\ Len(acc) >= Get(limit)
                    THEN Take(acc, Get(limit)) ELSE acc
         IN IF Len(batch) < batch_size
            THEN [pc |-> "returned", issues |-> cut, start_at |-> start]
            ELSE [pc |-> "loop", issues |-> cut, start_at |-> start + batch_size]

\* one iteration of the while loop after the batch arrived: the empty-batch
\* break, the extend, the max_results truncation, the short-batch break, the
\* advance of start_at
SearchStep(iss, start, batch, limit) ==
    IF batch = <<>>
    THEN [pc |-> "returned", issues |-> iss, start_at |-> start]
    ELSE LET acc == iss \o batch
         IN IF TruthyInt(limit) /\ Len(acc) >= Get(limit)
            THEN [pc |-> "returned", issues |-> Take(acc, Get(limit)), start_at |-> start]
            ELSE IF Len(batch) < batch_size
                 THEN [pc |-> "returned", issues |-> acc, start_at |-> start]
                 ELSE [pc |-> "loop", issues |-> acc, start_at |-> start + batch_size]

\* a mutant of SearchExcept: the error is swallowed and the pages so far returned
SearchExcept_Partial(iss, err) ==
    [pc |-> "returned", result |-> Some(iss), error |-> "none"]

\* the except clauses of search_issues: log and re-raise
SearchExcept(iss, err) ==
    [pc |-> "raised", result |-> None, error |-> err]

----------------------------------------------------------------------------
(* JiraClient.get_issue, get_issue_comments, test_connection *)

\* get_issue: the record, or the error re-raised; a key the service does not
\* hold is a JIRAError of the service
get_issue(key, err) ==
    IF err # "none" THEN [raised |-> err, value |-> None]
    ELSE IF key \notin 1..total THEN [raised |-> "JIRAError", value |-> None]
    ELSE [raised |-> "none", value |-> Some(key)]

\* get_issue_comments: the comments, or the error re-raised
get_issue_comments(key, err) ==
    IF err # "none" THEN [raised |-> err, value |-> None]
    ELSE [raised |-> "none", value |-> Some(ServiceComments(key))]

\* a mutant of JiraClient_test_connection: only the success path is handled
JiraClient_test_connection_Raise(err) ==
    IF err = "none"
    THEN [raised |-> FALSE, connected |-> TRUE, info |-> "server_info", error |-> "none"]
    ELSE [raised |-> TRUE, connected |-> FALSE, info |-> "none", error |-> err]

\* JiraClient.test_connection: err is what self.client.server_info() raised
\* inside the try, "none" if it returned
JiraClient_test_connection(err) ==
    IF err = "none"
    THEN [raised |-> FALSE, connected |-> TRUE, info |-> "server_info", error |-> "none"]
    ELSE [raised |-> FALSE, connected |-> FALSE, info |-> "none", error |-> err]

\* JiraProcessor.test_connection: info["connected"], False on any exception
JiraProcessor_test_connection(info) ==
    IF info.raised THEN FALSE ELSE info.connected

----------------------------------------------------------------------------
(* MarkdownConverter: the document as a sequence of lines, each line the   *)
(* sequence of the pieces its f-string is built from                       *)

Blank == << "" >>
Line(s) == << s >>

\* the result of a formatter: the lines of the text it returns, or raised
Returned(lines) == [raised |-> FALSE, lines |-> lines]
Raised == [raised |-> TRUE, lines |-> << >>]

\* a line that is emitted only under a condition
When(cond, line) == IF cond THEN << line >> ELSE << >>

\* a mutant of AssigneeLine: no line without an assignee
AssigneeLine_Omitted(assignee) ==
    IF TruthyAttr(assignee)
    THEN << << "**Assignee:** ", AttrVal(assignee) >> >>
    ELSE << >>

\* format_issue_metadata: the assignee line
AssigneeLine(assignee) ==
    IF TruthyAttr(assignee)
    THEN << << "**Assignee:** ", AttrVal(assignee) >> >>
    ELSE << << "**Assignee:** ", "Unassigned" >> >>

\* MarkdownConverter.format_issue_metadata
format_issue_metadata(issue) ==
    IF \/ ~HasAttr(issue.issuetype)
       \/ ~HasAttr(issue.status)
       \/ (HasAttr(issue.created) /\ TryFormatDate(AttrVal(issue.created)).raised)
       \/ (HasAttr(issue.updated) /\ TryFormatDate(AttrVal(issue.updated)).raised)
    THEN Raised
    ELSE Returned(
           << << "**Key:** ", issue.key >>,
              << "**Type:** ", AttrVal(issue.issuetype) >>,
              << "**Status:** ", AttrVal(issue.status) >> >>
           \o When(TruthyAttr(issue.priority),
                   << "**Priority:** ", AttrVal(issue.priority) >>)
           \o AssigneeLine(issue.assignee)
           \o When(TruthyAttr(issue.reporter),
                   << "**Reporter:** ", AttrVal(issue.reporter) >>)
           \o When(HasAttr(issue.created),
                   << "**Created:** ", _format_date(AttrVal(issue.created)) >>)
           \o When(HasAttr(issue.updated),
                   << "**Updated:** ", _format_date(AttrVal(issue.updated)) >>)
           \o When(TruthyAttr(issue.parent),
                   << "**Parent:** [", AttrVal(issue.parent).key, "] ",
                      AttrVal(issue.parent).summary >>)
           \o When(TruthyAttr(issue.sprint),
                   << "**Sprint:** ", AttrVal(issue.sprint) >>)
           \o When(TruthyListAttr(issue.labels),
                   << "**Labels:** ", AttrVal(issue.labels) >>))

NoDescription == Line("_No description provided._")

\* a mutant of format_issue_description: only None gets the placeholder
format_issue_description_OnlyNone(issue) ==
    IF ~HasAttr(issue.description)
    THEN Raised
    ELSE IF issue.description = Null
    THEN Returned(<< NoDescription >>)
    ELSE Returned(<< Line(convert_jira_markup(Some(AttrVal(issue.description)))) >>)

\* MarkdownConverter.format_issue_description
format_issue_description(issue) ==
    IF ~HasAttr(issue.description)
    THEN Raised
    ELSE IF ~TruthyTextAttr(issue.description)
    THEN Returned(<< NoDescription >>)
    ELSE IF TryConvert(Some(AttrVal(issue.description))).raised
    THEN Raised
    ELSE Returned(<< Line(convert_jira_markup(Some(AttrVal(issue.description)))) >>)

NoComments == Line("_No comments._")

\* format_comments: the four lines of one comment
CommentBlock(comment) ==
    LET author == IF HasAttr(comment.author) THEN AttrVal(comment.author)
                  ELSE "Unknown"
        created == IF HasAttr(comment.created)
                   THEN _format_date(AttrVal(comment.created))
                   ELSE << "Unknown date" >>
        body == convert_jira_markup(comment.body)
    IN << << "### ", author, " - ", created >>, Blank, Line(body), Blank >>

\* format_comments: what the loop body of one comment lets through
CommentRaises(comment) ==
    \/ (HasAttr(comment.created) /\ TryFormatDate(AttrVal(comment.created)).raised)
    \/ TryConvert(comment.body).raised

RECURSIVE CommentBlocks(_)
CommentBlocks(cmts) ==
    IF cmts = << >> THEN << >>
    ELSE CommentBlock(Head(cmts)) \o CommentBlocks(Tail(cmts))

\* a mutant of format_comments: the newest comment comes first
RECURSIVE CommentBlocks_Reversed(_)
CommentBlocks_Reversed(cmts) ==
    IF cmts = << >> THEN << >>
    ELSE CommentBlocks_Reversed(Tail(cmts)) \o CommentBlock(Head(cmts))

format_comments_Reversed(cmts) ==
    IF ~TruthyList(cmts)
    THEN Returned(<< NoComments >>)
    ELSE Returned(CommentBlocks_Reversed(Get(cmts)))

\* MarkdownConverter.format_comments on an Optional[list]
format_comments(cmts) ==
    IF ~TruthyList(cmts)
    THEN Returned(<< NoComments >>)
    ELSE IF \E i \in 1..Len(Get(cmts)) : CommentRaises(Get(cmts)[i])
    THEN Raised
    ELSE Returned(CommentBlocks(Get(cmts)))

NoAttachments == Line("_No attachments._")

\* a mutant of AttachmentLine: the location is read without the hasattr test
AttachmentLine_NoPlaceholder(attachment) ==
    LET url == IF HasAttr(attachment.content) THEN AttrVal(attachment.content)
               ELSE ""
        size == IF HasAttr(attachment.size)
                THEN _format_file_size(AttrVal(attachment.size))
                ELSE << "Unknown size" >>
    IN << "- [", attachment.filename, "](", url, ") (", size, ")" >>

\* format_attachments: the line of one attachment
AttachmentLine(attachment) ==
    LET url == IF HasAttr(attachment.content) THEN AttrVal(attachment.content)
               ELSE "#"
        size == IF HasAttr(attachment.size)
                THEN _format_file_size(AttrVal(attachment.size))
                ELSE << "Unknown size" >>
    IN << "- [", attachment.filename, "](", url, ") (", size, ")" >>

\* MarkdownConverter.format_attachments
format_attachments(issue) ==
    IF ~TruthyListAttr(issue.attachment)
    THEN Returned(<< NoAttachments >>)
    ELSE LET lst == AttrVal(issue.attachment)
         IN Returned([i \in 1..Len(lst) |-> AttachmentLine(lst[i])])

\* the render date of the footer: datetime.now() at the time of the call
Today == "2026-01-01"

\* a mutant of CommentsEmitted: the section follows the flag alone
CommentsEmitted_FlagOnly(inc_comments, cmts) == inc_comments

\* issue_to_markdown: `if include_comments and comments`
CommentsEmitted(inc_comments, cmts) == inc_comments /\ TruthyList(cmts)

\* a mutant of AttachmentsEmitted: no section without attachment data
AttachmentsEmitted_IfData(inc_attachments, issue) ==
    inc_attachments /\ TruthyListAttr(issue.attachment)

\* issue_to_markdown: `if include_attachments`
AttachmentsEmitted(inc_attachments, issue) == inc_attachments

\* a mutant of Sections: the attachments come before the comments
Sections_AttachmentsFirst(title, meta, desc, com, att) ==
    << title, Blank >> \o meta \o << Blank >>
    \o << Line("## Description"), Blank >> \o desc \o << Blank >>
    \o att \o com
    \o << Line("---"), << "*Exported from Jira: ", Today, "*" >> >>

\* issue_to_markdown: the sections in the order they are appended
Sections(title, meta, desc, com, att) ==
    << title, Blank >> \o meta \o << Blank >>
    \o << Line("## Description"), Blank >> \o desc \o << Blank >>
    \o com \o att
    \o << Line("---"), << "*Exported from Jira: ", Today, "*" >> >>

\* MarkdownConverter.issue_to_markdown: raises when the record lacks a field
\* it reads (summary, issuetype, status, description)
issue_to_markdown(issue, cmts, inc_comments, inc_attachments) ==
    LET meta == format_issue_metadata(issue)
        desc == format_issue_description(issue)
        com == IF CommentsEmitted(inc_comments, cmts)
               THEN << Line("## Comments"), Blank >>
                    \o format_comments(cmts).lines \o << Blank >>
               ELSE << >>
        att == IF AttachmentsEmitted(inc_attachments, issue)
               THEN << Line("## Attachments"), Blank >>
                    \o format_attachments(issue).lines \o << Blank >>
               ELSE << >>
    IN IF \/ ~HasAttr(issue.summary)
          \/ meta.raised
          \/ desc.raised
          \/ (CommentsEmitted(inc_comments, cmts) /\ format_comments(cmts).raised)
       THEN [raised |-> TRUE, doc |-> << >>]
       ELSE [raised |-> FALSE,
             doc |-> Sections(<< "# [", issue.key, "] ", AttrVal(issue.summary) >>,
                              meta.lines, desc.lines, com, att)]

----------------------------------------------------------------------------
(* JiraProcessor.process_issues *)

\* a mutant of IssueAt: the list is walked from its end
IssueAt_Reversed(lst, i) == lst[Len(lst) + 1 - i]

\* `for issue in issues`: the i-th issue of the loop
IssueAt(lst, i) == lst[i]

\* a mutant of FetchesComments: the comments are fetched whatever the flag
FetchesComments_Always(inc_comments) == TRUE

\* `if self.include_comments:` before the comment fetch
FetchesComments(inc_comments) == inc_comments

\* a mutant of CommentsOnFailure: no substitute for the failed fetch
CommentsOnFailure_None == None

\* the except clause around get_issue_comments: comments = []
CommentsOnFailure == Some(<< >>)

\* a mutant of RenderExcept: the failure is passed on to the consumer
RenderExcept_Raise(err) == [raise |-> TRUE, error |-> err]

\* the except clause around issue_to_markdown and the yield: log and continue
RenderExcept(err) == [raise |-> FALSE, error |-> "none"]

\* a mutant of AfterYield: the body runs on after handing out an element
AfterYield_RunOn == "running"

\* the yield statement: the generator is suspended until the next request
AfterYield == "suspended"

\* the head of the for loop at position i: the next item, or exhaustion
LoopHead(lst, i) == IF i <= Len(lst) THEN "item" ELSE "exhausted"

----------------------------------------------------------------------------
(* JiraProcessor.process_single_issue *)

\* a mutant of Uncaught: the exception is dropped
Uncaught_Swallowed(err) == "none"

\* a statement outside any try block: what it raises leaves the function
Uncaught(err) == err

\* a mutant of SingleCommentsExcept: the failed fetch ends the call
SingleCommentsExcept_Raise(err) == [raise |-> TRUE, comments |-> None]

\* process_single_issue, the except clause around get_issue_comments: log
\* and comments = []
SingleCommentsExcept(err) == [raise |-> FALSE, comments |-> CommentsOnFailure]

\* process_single_issue, given what get_issue and get_issue_comments answer:
\* the calls it makes, what it raises and the pair it returns
process_single_issue(key, got, fetched, inc_comments, inc_attachments) ==
    IF got.raised # "none"
    THEN [key |-> key, issueError |-> got.raised,
          commentsCalled |-> FALSE, commentsError |-> "none",
          renderCalled |-> FALSE, renderComments |-> None, renderRaised |-> FALSE,
          raised |-> Uncaught(got.raised), result |-> None]
    ELSE LET fetch == FetchesComments(inc_comments)
             h == SingleCommentsExcept(fetched.raised)
             cmts == IF ~fetch THEN None
                     ELSE IF fetched.raised = "none" THEN fetched.value
                     ELSE h.comments
             r == issue_to_markdown(Record(Get(got.value)), cmts, inc_comments,
                                    inc_attachments)
         IN IF fetch /\ fetched.raised # "none" /\ h.raise
            THEN [key |-> key, issueError |-> "none",
                  commentsCalled |-> TRUE, commentsError |-> fetched.raised,
                  renderCalled |-> FALSE, renderComments |-> None,
                  renderRaised |-> FALSE,
                  raised |-> fetched.raised, result |-> None]
            ELSE [key |-> key, issueError |-> "none",
                  commentsCalled |-> fetch,
                  commentsError |-> IF fetch THEN fetched.raised ELSE "none",
                  renderCalled |-> TRUE, renderComments |-> cmts,
                  renderRaised |-> r.raised,
                  raised |-> IF r.raised THEN Uncaught("Exception") ELSE "none",
                  result |-> IF r.raised THEN None ELSE Some(<< key, r.doc >>)]

----------------------------------------------------------------------------
(* Initial states *)

Limits(n) == {None} \cup {Some(k) : k \in 0..n}

InitFrames ==
    /\ _client = 0
    /\ sessionsCreated = 0
    /\ connectAttempts = 0
    /\ handshaken = {}
    /\ settings = Constructed
    /\ sessionArgs = << >>
    /\ searchPc = "idle"
    /\ issues = << >>
    /\ start_at = 0
    /\ requestLog = << >>
    /\ searchResult = None
    /\ searchError = "none"
    /\ genState = "none"
    /\ genPc = "search"
    /\ pending = FALSE
    /\ nextCalls = 0
    /\ idx = 0
    /\ comments = None
    /\ yielded = << >>
    /\ genError = "none"
    /\ renderLog = << >>
    /\ commentLog = << >>
    /\ clientProbe = None
    /\ processorProbe = None
    /\ lastCall = None
    /\ singleCall = None
    /\ convOut = None

\* the streaming specification: a small store, a consumer that may exhaust it
Init ==
    /\ total \in 0..MaxIssues
    /\ max_results \in Limits(MaxIssues)
    /\ include_comments \in BOOLEAN
    /\ include_attachments \in BOOLEAN
    /\ missingFields \in SUBSET (1..total)
    /\ demand = MaxDemand
    /\ convIn = None
    /\ InitFrames

\* store sizes around the page boundaries: one less than, exactly, and one
\* more than each multiple of the batch size, and the empty store
PageTotals == {0} \cup {p * batch_size + d : p \in 1..MaxPages, d \in {-1, 0, 1}}

\* the pagination specification: a store of several pages, any limit around
\* the page boundaries, a consumer that requests PagesDemand elements
InitPages ==
    /\ total \in PageTotals
    /\ max_results \in {None} \cup {Some(k) : k \in {1} \cup PageTotals}
    /\ include_comments \in BOOLEAN
    /\ include_attachments = TRUE
    /\ missingFields \in SUBSET (1..Min(total, PagesDemand))
    /\ demand = PagesDemand
    /\ convIn = None
    /\ InitFrames

\* the session specification: one client instance over a small store
InitClient ==
    /\ total \in 0..1
    /\ max_results = None
    /\ include_comments = TRUE
    /\ include_attachments = TRUE
    /\ missingFields = {}
    /\ demand = 0
    /\ convIn = None
    /\ InitFrames

\* the single-issue specification: one processor over a small store, used
\* for streams and for single issues
InitSingle ==
    /\ total \in 0..MaxSingle
    /\ max_results = None
    /\ include_comments \in BOOLEAN
    /\ include_attachments = TRUE
    /\ missingFields \in SUBSET (1..total)
    /\ demand = MaxSingle + 1
    /\ convIn = None
    /\ InitFrames

\* the sequences over S of length at most n
SeqsUpTo(S, n) == UNION {[1..k -> S] : k \in 0..n}

\* comments as the service sends them, and duck-typed ones lacking attributes
CommentPool ==
    { [id |-> 1, author |-> Attr("Alice"), created |-> Attr(DateOk),
       body |-> Some("*bold*")],
      [id |-> 2, author |-> Attr("Bob"), created |-> Attr(DateBad),
       body |-> Some("{code:unclosed")],
      [id |-> 3, author |-> Absent, created |-> Absent, body |-> None] }

\* attachments: complete, without a content location, without a size
AttachmentPool ==
    { [filename |-> "log.txt", content |-> Attr("http://jira/att/1"),
       size |-> Attr(500)],
      [filename |-> "shot.png", content |-> Absent, size |-> Attr(1536)],
      [filename |-> "dump.bin", content |-> Attr("http://jira/att/3"),
       size |-> Absent] }

LabelPool == {"backend", "urgent"}

\* an object-valued optional attribute: missing, None, or the value
Optional(v) == {Absent, Null, Attr(v)}

ConvArgs(issue, cmts, inc_comments, inc_attachments) ==
    [kind |-> "issue", issue |-> issue, comments |-> cmts, include_comments |-> inc_comments,
     include_attachments |-> inc_attachments]

\* issues that differ in their optional metadata
MetaInputs ==
    { ConvArgs([BaseIssue(1) EXCEPT !.priority = pr, !.assignee = asg,
                                    !.reporter = rep, !.parent = par,
                                    !.sprint = spr, !.labels = lab],
               None, TRUE, TRUE) :
        pr \in Optional("High"), asg \in Optional("Alice"),
        rep \in Optional("Bob"), par \in Optional([key |-> 0, summary |-> "Epic"]),
        spr \in Optional("Sprint 7"),
        lab \in {Absent, Null} \cup {Attr(l) : l \in SeqsUpTo(LabelPool, MaxLabels)} }

\* issues that differ in their timestamps
DateInputs ==
    { ConvArgs([BaseIssue(1) EXCEPT !.created = cr, !.updated = up],
               None, TRUE, TRUE) :
        cr \in {Absent, Attr(DateOk), Attr(DateUtc), Attr(DateBad)},
        up \in {Absent, Attr(DateOk), Attr(DateUtc), Attr(DateBad)} }

\* issues that differ in the fields the converter reads unguarded
RequiredInputs ==
    { ConvArgs([BaseIssue(1) EXCEPT !.summary = su, !.issuetype = ty,
                                    !.status = st, !.description = de],
               None, TRUE, TRUE) :
        su \in {Absent, Attr("Fix login")}, ty \in {Absent, Attr("Bug")},
        st \in {Absent, Attr("Open")},
        de \in {Absent, Null, Attr("")} \cup {Attr(m) : m \in Markup} }

\* every shape of the attachments, of the comments argument and of the flags
DocInputs ==
    { ConvArgs([BaseIssue(1) EXCEPT !.description = de, !.attachment = at],
               cm, ic, ia) :
        de \in {Null, Attr("h2. Title")},
        at \in {Absent, Null}
                \cup {Attr(l) : l \in SeqsUpTo(AttachmentPool, MaxAttachments)},
        cm \in {None} \cup {Some(l) : l \in SeqsUpTo(CommentPool, MaxComments)},
        ic \in BOOLEAN, ia \in BOOLEAN }

\* byte counts at and around the unit thresholds, and remainders at and
\* around the rounding steps of the tenths
SizeKibs ==
    {0, 1, 5, 3 * KB}
    \cup {KB + d : d \in {-1, 0, 1}}
    \cup {g * MB + d : g \in 1..MaxGiB, d \in {-1, 0, 1}}
SizeRems == {0, 1, 51, 52, 256, 500, 512, 768, 972, 973, 1023}
SizeInputs ==
    { [kind |-> "size", size |-> Bytes(k, r)] : k \in SizeKibs, r \in SizeRems }

\* timestamps with an offset, in UTC, without a zone, and strings that are
\* no timestamp
DateInputStrings == {DateOk, DateUtc, DateLocal, DateBad, DateEmpty}
DateArgs == { [kind |-> "date", date |-> d] : d \in DateInputStrings }

\* None, the empty string and the markup texts
TextArgs ==
    { [kind |-> "text", text |-> t] : t \in {None, Some("")} \cup {Some(m) : m \in Markup} }

\* the converter specification: one MarkdownConverter called directly
InitConverter ==
    /\ total = 0
    /\ max_results = None
    /\ include_comments = TRUE
    /\ include_attachments = TRUE
    /\ missingFields = {}
    /\ demand = 0
    /\ convIn \in {Some(a) : a \in MetaInputs \cup DateInputs
                                     \cup RequiredInputs \cup DocInputs
                                     \cup SizeInputs \cup DateArgs \cup TextArgs}
    /\ InitFrames

----------------------------------------------------------------------------
(* Actions *)

Idle == searchPc # "loop" /\ genState # "running"

\* what an access of the client property followed by one remote call raises
AccessError(acc, ro) ==
    IF acc.raised # "none" THEN acc.raised ELSE IF ro # "ok" THEN ro ELSE "none"

\* search_issues is called directly: issues = [], start_at = 0
CallSearch ==
    /\ Idle
    /\ genState = "none"
    /\ searchPc' = "loop"
    /\ issues' = << >>
    /\ start_at' = 0
    /\ requestLog' = << >>
    /\ searchResult' = None
    /\ searchError' = "none"
    /\ UNCHANGED << envVars, callVars, sessionVars, genVars, probeVars >>

\* how the generator goes on when the search it called has ended
AfterSearch(fin) ==
    IF genState = "running" /\ fin.pc = "raised"
    THEN /\ genState' = "raised"
         /\ genError' = fin.error
         /\ pending' = FALSE
         /\ UNCHANGED << genPc, idx >>
    ELSE IF genState = "running" /\ fin.pc = "returned"
    THEN /\ idx' = 1
         /\ genError' = genError
         /\ IF LoopHead(Get(fin.result), 1) = "item"
            THEN genState' = "running" /\ genPc' = "item" /\ pending' = pending
            ELSE genState' = "done" /\ genPc' = genPc /\ pending' = FALSE
    ELSE UNCHANGED << genState, genPc, pending, idx, genError >>

\* one iteration of the while loop of search_issues: the client property
\* (connecting if needed), the page request, and what follows the batch
SearchPage ==
    /\ searchPc = "loop"
    /\ CanAccess
    /\ \E co \in Outcomes(Session), ro \in RemoteOutcomes :
         LET acc == client(Session, co)
             requested == acc.raised = "none"
             step == SearchStep(issues, start_at,
                                ServicePage(start_at, batch_size), max_results)
             fin == IF ~requested
                    THEN SearchExcept(issues, acc.raised)
                         @@ [issues |-> issues, start_at |-> start_at]
                    ELSE IF ro # "ok"
                    THEN SearchExcept(issues, ro)
                         @@ [issues |-> issues, start_at |-> start_at]
                    ELSE IF step.pc = "returned"
                    THEN step @@ [result |-> Some(step.issues), error |-> "none"]
                    ELSE step @@ [result |-> None, error |-> "none"]
         IN /\ (~requested => ro = "ok")
            /\ SetSession(acc.s)
            /\ requestLog' = IF requested
                             THEN Append(requestLog, [startAt |-> start_at,
                                                      maxResults |-> batch_size,
                                                      error |-> IF ro = "ok" THEN "none"
                                                                ELSE ro])
                             ELSE requestLog
            /\ searchPc' = fin.pc
            /\ issues' = fin.issues
            /\ start_at' = fin.start_at
            /\ searchResult' = fin.result
            /\ searchError' = fin.error
            /\ AfterSearch(fin)
    /\ UNCHANGED << envVars, callVars, probeVars, nextCalls, comments, yielded,
                    renderLog, commentLog >>

\* process_issues is called: a generator object, none of its body has run
CreateStream ==
    /\ Idle
    /\ genState = "none"
    /\ searchPc = "idle"
    /\ genState' = "created"
    /\ UNCHANGED << envVars, callVars, sessionVars, searchVars, probeVars, genPc, pending,
                    nextCalls, idx, comments, yielded, genError, renderLog,
                    commentLog >>

\* a mutant of ConsumerNext: the search is run again at every resumption
ConsumerNext_SearchAgain ==
    /\ genState \in {"created", "suspended"}
    /\ nextCalls < demand
    /\ nextCalls' = nextCalls + 1
    /\ genState' = "running"
    /\ genPc' = "search"
    /\ pending' = TRUE
    /\ searchPc' = "loop"
    /\ issues' = << >>
    /\ start_at' = 0
    /\ UNCHANGED << idx, requestLog, searchResult, searchError >>
    /\ UNCHANGED << envVars, callVars, sessionVars, probeVars, comments, yielded, genError,
                    renderLog, commentLog >>

\* the consumer requests the next element: a created generator starts with
\* the search, a suspended one resumes after its yield at the loop head
ConsumerNext ==
    /\ genState \in {"created", "suspended"}
    /\ nextCalls < demand
    /\ nextCalls' = nextCalls + 1
    /\ IF genState = "created"
       THEN /\ genState' = "running"
            /\ genPc' = "search"
            /\ pending' = TRUE
            /\ searchPc' = "loop"
            /\ issues' = << >>
            /\ start_at' = 0
            /\ UNCHANGED << idx, requestLog, searchResult, searchError >>
       ELSE /\ idx' = idx + 1
            /\ IF LoopHead(Get(searchResult), idx + 1) = "item"
               THEN genState' = "running" /\ genPc' = "item" /\ pending' = TRUE
               ELSE genState' = "done" /\ genPc' = genPc /\ pending' = FALSE
            /\ UNCHANGED searchVars
    /\ UNCHANGED << envVars, callVars, sessionVars, probeVars, comments, yielded, genError,
                    renderLog, commentLog >>

\* the first half of the loop body: comments = None, and with comments
\* enabled the fetch through JiraClient.get_issue_comments, [] if it raises
StreamComments ==
    /\ genState = "running"
    /\ genPc = "item"
    /\ LET key == IssueAt(Get(searchResult), idx)
       IN IF FetchesComments(include_comments)
          THEN /\ CanAccess
               /\ \E co \in Outcomes(Session), ro \in RemoteOutcomes :
                    LET acc == client(Session, co)
                        err == get_issue_comments(key, AccessError(acc, ro)).raised
                    IN /\ (acc.raised # "none" => ro = "ok")
                       /\ SetSession(acc.s)
                       /\ commentLog' = Append(commentLog, [key |-> key, error |-> err])
                       /\ comments' = IF err = "none" THEN Some(ServiceComments(key))
                                      ELSE CommentsOnFailure
          ELSE /\ comments' = None
               /\ UNCHANGED << sessionVars, commentLog >>
    /\ genPc' = "render"
    /\ UNCHANGED << envVars, callVars, searchVars, probeVars, genState, pending, nextCalls,
                    idx, yielded, genError, renderLog >>

\* the second half of the loop body: issue_to_markdown, then the yield, or
\* the except clause when the conversion raised
StreamRender ==
    /\ genState = "running"
    /\ genPc = "render"
    /\ LET key == IssueAt(Get(searchResult), idx)
           r == issue_to_markdown(Record(key), comments, include_comments,
                                  include_attachments)
           h == RenderExcept("Exception")
       IN /\ renderLog' = Append(renderLog,
                                 [key |-> key, comments |-> comments, raised |-> r.raised])
          /\ IF ~r.raised
             THEN /\ yielded' = Append(yielded, << key, r.doc >>)
                  /\ genState' = AfterYield
                  /\ pending' = FALSE
                  /\ UNCHANGED << genPc, idx, genError >>
             ELSE IF h.raise
             THEN /\ genState' = "raised"
                  /\ genError' = h.error
                  /\ pending' = FALSE
                  /\ UNCHANGED << genPc, idx, yielded >>
             ELSE /\ idx' = idx + 1
                  /\ IF LoopHead(Get(searchResult), idx + 1) = "item"
                     THEN genState' = "running" /\ genPc' = "item" /\ pending' = pending
                     ELSE genState' = "done" /\ genPc' = genPc /\ pending' = FALSE
                  /\ UNCHANGED << yielded, genError >>
    /\ UNCHANGED << envVars, callVars, sessionVars, searchVars, probeVars, nextCalls,
                    comments, commentLog >>

\* JiraClient.connect is called explicitly
CallConnect ==
    /\ Idle
    /\ connectAttempts < MaxConnects
    /\ \E co \in ConnectOutcomes : SetSession(connect(Session, co).s)
    /\ UNCHANGED << envVars, callVars, searchVars, genVars, probeVars >>

\* JiraClient.get_issue is called directly
CallGetIssue ==
    /\ Idle
    /\ CanAccess
    /\ \E key \in 1..(total + 1), co \in Outcomes(Session), ro \in RemoteOutcomes :
         LET acc == client(Session, co)
             r == get_issue(key, AccessError(acc, ro))
         IN /\ (acc.raised # "none" => ro = "ok")
            /\ SetSession(acc.s)
            /\ lastCall' = Some([op |-> "get_issue", key |-> key,
                                 out |-> [raised |-> r.raised, issue |-> r.value,
                                          comments |-> None]])
    /\ UNCHANGED << envVars, callVars, searchVars, genVars, clientProbe, processorProbe >>

\* JiraClient.get_issue_comments is called directly
CallGetIssueComments ==
    /\ Idle
    /\ CanAccess
    /\ \E key \in 1..total, co \in Outcomes(Session), ro \in RemoteOutcomes :
         LET acc == client(Session, co)
             r == get_issue_comments(key, AccessError(acc, ro))
         IN /\ (acc.raised # "none" => ro = "ok")
            /\ SetSession(acc.s)
            /\ lastCall' = Some([op |-> "get_issue_comments", key |-> key,
                                 out |-> [raised |-> r.raised, issue |-> None,
                                          comments |-> r.value]])
    /\ UNCHANGED << envVars, callVars, searchVars, genVars, clientProbe, processorProbe >>

\* JiraClient.test_connection is called directly
CallClientTestConnection ==
    /\ Idle
    /\ CanAccess
    /\ \E co \in Outcomes(Session), ro \in RemoteOutcomes :
         LET acc == client(Session, co)
             err == AccessError(acc, ro)
         IN /\ (acc.raised # "none" => ro = "ok")
            /\ SetSession(acc.s)
            /\ clientProbe' = Some([cause |-> err,
                                    result |-> JiraClient_test_connection(err)])
    /\ UNCHANGED << envVars, callVars, searchVars, genVars, processorProbe, lastCall >>

\* JiraProcessor.test_connection is called: it runs JiraClient.test_connection
CallProcessorTestConnection ==
    /\ Idle
    /\ CanAccess
    /\ \E co \in Outcomes(Session), ro \in RemoteOutcomes :
         LET acc == client(Session, co)
             err == AccessError(acc, ro)
             info == JiraClient_test_connection(err)
         IN /\ (acc.raised # "none" => ro = "ok")
            /\ SetSession(acc.s)
            /\ clientProbe' = Some([cause |-> err, result |-> info])
            /\ processorProbe' = Some([info |-> info,
                                       returned |-> JiraProcessor_test_connection(info)])
    /\ UNCHANGED << envVars, callVars, searchVars, genVars, lastCall >>

\* JiraProcessor.process_single_issue is called: get_issue through the client
\* property (connecting if needed), the comments with comments enabled, the
\* conversion
CallProcessSingleIssue ==
    /\ Idle
    /\ CanAccess
    /\ \E key \in 1..(total + 1), co \in Outcomes(Session),
          ro1 \in RemoteOutcomes, ro2 \in RemoteOutcomes :
         LET acc == client(Session, co)
             got == get_issue(key, AccessError(acc, ro1))
             again == client(acc.s, "ok")
             fetched == get_issue_comments(key, AccessError(again, ro2))
             call == process_single_issue(key, got, fetched, include_comments,
                                          include_attachments)
         IN /\ (acc.raised # "none" => ro1 = "ok")
            /\ (got.raised # "none" => ro2 = "ok")
            /\ (~call.commentsCalled => ro2 = "ok")
            /\ SetSession(IF call.commentsCalled THEN again.s ELSE acc.s)
            /\ singleCall' = Some(call)
    /\ UNCHANGED << envVars, searchVars, genVars, probeVars, convIn, convOut >>

\* a direct call of a MarkdownConverter method on arguments of its kind
\* leaves its result
ConverterCall(kind, op, out) ==
    /\ ~convIn.isNone
    /\ Get(convIn).kind = kind
    /\ convOut' = Some([op |-> op, out |-> out])
    /\ UNCHANGED << envVars, sessionVars, searchVars, genVars, probeVars,
                    singleCall, convIn >>

\* a caller assigns a field of the JiraSettings object the client holds
AssignSetting ==
    /\ Idle
    /\ \E f \in DOMAIN SettingValues : \E v \in SettingValues[f] :
          settings' = [settings EXCEPT ![f] = v]
    /\ UNCHANGED << total, max_results, include_comments, include_attachments,
                    missingFields, demand, sessionVars, searchVars, genVars,
                    probeVars, callVars >>

CallFormatIssueMetadata ==
    ConverterCall("issue", "format_issue_metadata",
                  format_issue_metadata(Get(convIn).issue))

CallFormatIssueDescription ==
    ConverterCall("issue", "format_issue_description",
                  format_issue_description(Get(convIn).issue))

CallFormatComments ==
    ConverterCall("issue", "format_comments", format_comments(Get(convIn).comments))

CallFormatAttachments ==
    ConverterCall("issue", "format_attachments",
                  format_attachments(Get(convIn).issue))

CallIssueToMarkdown ==
    ConverterCall("issue", "issue_to_markdown",
                  issue_to_markdown(Get(convIn).issue, Get(convIn).comments,
                                    Get(convIn).include_comments,
                                    Get(convIn).include_attachments))

CallFormatFileSize ==
    ConverterCall("size", "_format_file_size", FileSizeText(Get(convIn).size))

CallFormatDate ==
    ConverterCall("date", "_format_date", TryFormatDate(Get(convIn).date))

CallConvertJiraMarkup ==
    ConverterCall("text", "convert_jira_markup", TryConvert(Get(convIn).text))

Next ==
    \/ CallSearch
    \/ SearchPage
    \/ CreateStream
    \/ ConsumerNext
    \/ StreamComments
    \/ StreamRender

Spec == Init /\ [][Next]_vars

SpecPages == InitPages /\ [][Next]_vars

\* the operations of one JiraClient / JiraProcessor instance in any order
NextClient ==
    \/ CallConnect
    \/ CallSearch
    \/ SearchPage
    \/ CallGetIssue
    \/ CallGetIssueComments
    \/ CallClientTestConnection
    \/ CallProcessorTestConnection

SpecClient == InitClient /\ [][NextClient]_vars

\* the settings specification: the client's calls, between assignments to
\* the settings object it was constructed with
NextSettings ==
    \/ AssignSetting
    \/ CallConnect
    \/ CallClientTestConnection

SpecSettings == InitClient /\ [][NextSettings]_vars

\* one JiraProcessor: streams and single issues
NextSingle ==
    \/ CreateStream
    \/ ConsumerNext
    \/ SearchPage
    \/ StreamComments
    \/ StreamRender
    \/ CallProcessSingleIssue

SpecSingle == InitSingle /\ [][NextSingle]_vars

\* the methods of one MarkdownConverter in any order
NextConverter ==
    \/ CallFormatIssueMetadata
    \/ CallFormatIssueDescription
    \/ CallFormatComments
    \/ CallFormatAttachments
    \/ CallIssueToMarkdown
    \/ CallFormatFileSize
    \/ CallFormatDate
    \/ CallConvertJiraMarkup

SpecConverter == InitConverter /\ [][NextConverter]_vars

----------------------------------------------------------------------------
(* Properties *)

\* the keys of a sequence of (key, document) pairs
Keys(pairs) == [i \in 1..Len(pairs) |-> pairs[i][1]]

RECURSIVE IsSubseq(_, _)
\* a is b with some of its elements left out, the others in b's order
IsSubseq(a, b) ==
    IF a = << >> THEN TRUE
    ELSE IF b = << >> THEN FALSE
    ELSE IF Head(a) = Head(b) THEN IsSubseq(Tail(a), Tail(b))
    ELSE IsSubseq(a, Tail(b))

NoDuplicates(s) == \A i, j \in 1..Len(s) : s[i] = s[j] => i = j

\* the keys whose issue_to_markdown call raised
FailedRenders == {renderLog[i].key : i \in {j \in 1..Len(renderLog) : renderLog[j].raised}}

RenderedKeys == [i \in 1..Len(renderLog) |-> renderLog[i].key]

NotFailed(k) == k \notin FailedRenders

\* C1: a process_issues run consumed to exhaustion yields exactly the issues
\* of the search result whose conversion did not raise, in particular nothing
\* for a key whose conversion raised; issue_to_markdown ran exactly once per
\* issue of the result; and once the search has returned the generator never
\* raises to the consumer.
C1_SkipFailedRenders ==
    /\ (genState # "none" /\ searchPc = "returned") => genState # "raised"
    /\ genState = "done" =>
         /\ RenderedKeys = Get(searchResult)
         /\ Keys(yielded) = SelectSeq(Get(searchResult), NotFailed)
         /\ Len(yielded) = Len(Get(searchResult)) - Cardinality(FailedRenders)
         /\ \A i \in 1..Len(yielded) : yielded[i][2] # << >>

\* C1 witness: an exhausted run in which some conversions raised and some
\* issues were yielded
C1_Witness ==
    /\ genState = "done"
    /\ Len(renderLog) >= 3
    /\ FailedRenders # {}
    /\ Len(yielded) >= 1

\* C2: the keys yielded so far are always an order-preserving subsequence of
\* the search result, with no key yielded twice.
C2_OrderPreserved ==
    /\ searchResult.isNone => yielded = << >>
    /\ (genState # "none" /\ ~searchResult.isNone) =>
         /\ IsSubseq(Keys(yielded), Get(searchResult))
         /\ NoDuplicates(Keys(yielded))

\* C2 witness: two issues yielded around one that was skipped
C2_Witness ==
    /\ Len(yielded) = 2
    /\ Keys(yielded) = << 1, 3 >>

\* C3: with comments enabled, a failed get_issue_comments is not propagated:
\* the conversion of that issue is the next call and gets the empty list, the
\* issue is yielded when its conversion succeeds, the generator does not raise
\* and an exhausted run has converted every issue of the search result.
C3_CommentFailureIsolated ==
    include_comments =>
      /\ \A i \in 1..Len(commentLog) :
           commentLog[i].error # "none" =>
             /\ genState # "raised"
             /\ IF i <= Len(renderLog)
                THEN /\ renderLog[i].key = commentLog[i].key
                     /\ renderLog[i].comments = Some(<< >>)
                     /\ (~renderLog[i].raised) =>
                           \E n \in 1..Len(yielded) : yielded[n][1] = commentLog[i].key
                ELSE /\ genState = "running"
                     /\ genPc = "render"
                     /\ comments = Some(<< >>)
      /\ genState = "done" => RenderedKeys = Get(searchResult)

\* C3 witness: an exhausted run in which the comment fetch of the first issue
\* failed, that issue was yielded and a later issue was processed as well
C3_Witness ==
    /\ include_comments
    /\ genState = "done"
    /\ Len(commentLog) >= 2
    /\ commentLog[1].error # "none"
    /\ Len(yielded) >= 1
    /\ yielded[1][1] = commentLog[1].key

\* C4: a search with limit K never returns more than K items, and with
\* K < total it returns exactly the first K items in service order.
C4_LimitCaps ==
    (searchPc = "returned" /\ ~max_results.isNone) =>
      /\ Len(Get(searchResult)) <= Get(max_results)
      /\ Get(max_results) < total => Get(searchResult) = Take(Store, Get(max_results))

\* C5: a search with no limit returns all issues of the store in service
\* order, and so does a search with limit = total: the two return the same.
C5_NoLimitIsLimitTotal ==
    (searchPc = "returned" /\ (max_results = None \/ max_results = Some(total))) =>
      Get(searchResult) = Store

\* C5 witness: an unlimited search over a store of exactly two full pages,
\* ended by a third, empty page
C5_Witness ==
    /\ searchPc = "returned"
    /\ max_results = None
    /\ total = 2 * batch_size
    /\ Len(requestLog) = 3

\* C6: a failed page request is the last request of the search (it is not
\* issued again and nothing follows it) and makes the search raise its error
\* with no result; a process_issues run on top of it raises that error and
\* has yielded, fetched and converted nothing.
C6_SearchFailsLoudly ==
    /\ \A i \in 1..Len(requestLog) :
         requestLog[i].error # "none" =>
           /\ i = Len(requestLog)
           /\ searchPc = "raised"
           /\ searchError = requestLog[i].error
    /\ searchPc = "raised" =>
         /\ searchResult = None
         /\ searchError \in ErrorKinds
         /\ NoDuplicates([i \in 1..Len(requestLog) |-> requestLog[i].startAt])
         /\ genState # "none" =>
              /\ genState = "raised"
              /\ genError = searchError
              /\ yielded = << >>
              /\ renderLog = << >>
              /\ commentLog = << >>

\* C6 witness: a process_issues run whose search failed on its second page
C6_Witness ==
    /\ searchPc = "raised"
    /\ genState = "raised"
    /\ Len(requestLog) = 2
    /\ requestLog[2].error # "none"
    /\ Len(issues) = batch_size

\* C7: over a store with no matching issue a search that returns has made a
\* single page request and returns the empty list, a search raises only an
\* error of the service or the connection, and a process_issues run yields
\* nothing and makes no get_issue_comments or issue_to_markdown call.
C7_EmptyResult ==
    total = 0 =>
      /\ searchPc = "returned" =>
           /\ Get(searchResult) = << >>
           /\ Len(requestLog) = 1
      /\ searchPc = "raised" => searchError \in ErrorKinds
      /\ genState = "raised" => genError \in ErrorKinds
      /\ yielded = << >>
      /\ renderLog = << >>
      /\ commentLog = << >>

\* C7 witness: an exhausted process_issues run over the empty store
C7_Witness ==
    /\ total = 0
    /\ genState = "done"
    /\ searchPc = "returned"
    /\ Len(requestLog) = 1
    /\ requestLog[1].error = "none"

\* a step of the generator's work: a page request, a comment fetch, a
\* conversion or a connection attempt
WorkStep ==
    \/ requestLog' # requestLog
    \/ commentLog' # commentLog
    \/ renderLog' # renderLog
    \/ connectAttempts' # connectAttempts

\* C8: creating the generator makes no call; every page request, comment
\* fetch and conversion of a process_issues run happens while a request of
\* the consumer for the next element is outstanding, so none happens after
\* the consumer has stopped requesting.
C8_WorkOnDemand ==
    /\ [](genState = "created" =>
            requestLog = << >> /\ commentLog = << >> /\ renderLog = << >>
            /\ connectAttempts = 0)
    /\ [][(genState # "none" /\ WorkStep) => pending]_vars
    /\ [](genState \in {"suspended", "done", "raised", "created"} => ~pending)

\* C8 witness: the consumer holds one element of several and the generator is
\* suspended at its yield
C8_Witness ==
    /\ genState = "suspended"
    /\ Len(yielded) = 1
    /\ nextCalls = 1
    /\ Len(Get(searchResult)) >= 3
    /\ Len(renderLog) = 1

\* the probe results JiraProcessor.test_connection can be handed, a raising
\* probe included
ProbeResults ==
    [raised : BOOLEAN, connected : BOOLEAN, info : {"server_info", "none"},
     error : {"none"} \cup ErrorKinds]

\* C9: JiraClient.test_connection never raises: it reports connected with the
\* server information exactly when its server_info call (the connection it
\* may need included) succeeded, and not connected with the error otherwise;
\* JiraProcessor.test_connection returns true exactly when that probe reported
\* connected, and false for a probe that raised.
C9_ProbeNeverRaises ==
    /\ ~clientProbe.isNone =>
         LET p == Get(clientProbe)
         IN /\ ~p.result.raised
            /\ p.result.connected <=> p.cause = "none"
            /\ p.result.connected => p.result.info = "server_info"
            /\ (~p.result.connected) => p.result.error = p.cause /\ p.cause \in ErrorKinds
    /\ ~processorProbe.isNone =>
         LET q == Get(processorProbe)
         IN /\ ~q.info.raised
            /\ q.returned \in BOOLEAN
            /\ q.returned <=> (~q.info.raised /\ q.info.connected)
    /\ \A r \in ProbeResults :
         JiraProcessor_test_connection(r) <=> (~r.raised /\ r.connected)

\* C9 witness: a probe through the processor that found no session and whose
\* connection attempt failed, leaving the client without a session
C9_Witness ==
    /\ ~processorProbe.isNone
    /\ Get(processorProbe).returned = FALSE
    /\ Get(clientProbe).cause # "none"
    /\ _client = 0
    /\ connectAttempts = 1

\* a step of an operation that uses the session through JiraClient.client
SessionUse ==
    \/ SearchPage
    \/ CallGetIssue
    \/ CallGetIssueComments
    \/ CallClientTestConnection
    \/ CallProcessorTestConnection

\* C10: a new client holds no session; an operation that finds no session
\* runs connect (session construction, then the handshake) before its call;
\* an operation that finds a session uses it and neither replaces it nor
\* constructs another.
C10_LazySessionReuse ==
    /\ [](connectAttempts = 0 => _client = 0 /\ sessionsCreated = 0)
    /\ [][(SessionUse /\ _client = 0) =>
            /\ connectAttempts' = connectAttempts + 1
            /\ \/ _client' = 0 /\ sessionsCreated' = sessionsCreated
               \/ /\ _client' = sessionsCreated + 1
                  /\ sessionsCreated' = sessionsCreated + 1]_vars
    /\ [][(SessionUse /\ _client # 0) =>
            /\ _client' = _client
            /\ sessionsCreated' = sessionsCreated
            /\ connectAttempts' = connectAttempts]_vars

\* C10 witness: a search and a probe have both succeeded on the one session
\* that the first of them created
C10_Witness ==
    /\ searchPc = "returned"
    /\ ~clientProbe.isNone
    /\ Get(clientProbe).result.connected
    /\ ~lastCall.isNone
    /\ Get(lastCall).out.raised = "none"
    /\ _client = 1
    /\ sessionsCreated = 1
    /\ connectAttempts = 1

\* C11 as stated: over any sequence of operations of one client, explicit
\* connect included, at most one session object is ever constructed.
C11_CreatedAtMostOnce == sessionsCreated <= 1

\* C11 as amended: the client holds a session exactly when one has been
\* constructed, the operations that reach the session through the client
\* property construct one only when none has been constructed before, and
\* every further construction is a step of an explicit connect.
C11_CreatedOnceUnlessConnect ==
    /\ [](_client = 0 <=> sessionsCreated = 0)
    /\ [](sessionsCreated <= connectAttempts)
    /\ [][(sessionsCreated' # sessionsCreated /\ sessionsCreated >= 1)
            => CallConnect]_vars

\* C11 witness: a failed attempt, then the one construction by a first use,
\* then further uses of that session
C11_Witness ==
    /\ sessionsCreated = 1
    /\ connectAttempts = 2
    /\ _client = 1
    /\ searchPc = "returned"
    /\ ~clientProbe.isNone
    /\ Get(clientProbe).result.connected

\* C12: process_single_issue propagates failures.  When get_issue fails (the
\* key does not resolve, or the session or the request fails) or
\* issue_to_markdown raises, the call raises and returns no pair; it returns
\* the pair of the key and the document exactly when nothing failed.
C12_SinglePropagates ==
    ~singleCall.isNone =>
        LET c == Get(singleCall)
            failed == c.issueError # "none" \/ (c.renderCalled /\ c.renderRaised)
        IN /\ (c.key \notin 1..total => c.issueError # "none")
           /\ (c.issueError # "none" => ~c.renderCalled)
           /\ (c.key \in missingFields /\ c.issueError = "none" => c.renderRaised)
           /\ (failed => c.raised # "none" /\ c.result = None)
           /\ (~failed => /\ c.raised = "none"
                          /\ ~c.result.isNone
                          /\ Get(c.result)[1] = c.key)

\* C12 witness: a single issue whose conversion raised, and the call raised,
\* on a processor whose stream skipped the same issue
C12_Witness ==
    /\ ~singleCall.isNone
    /\ Get(singleCall).renderRaised
    /\ Get(singleCall).raised # "none"
    /\ genState = "done"
    /\ Get(singleCall).key \in FailedRenders

\* C13: with comments disabled neither process_issues nor process_single_issue
\* calls get_issue_comments; issue_to_markdown gets None for its comments; and
\* every issue whose conversion succeeds is produced: yielded by the stream,
\* returned by the single-issue call.
C13_CommentsDisabled ==
    ~include_comments =>
        /\ commentLog = << >>
        /\ \A i \in 1..Len(renderLog) :
              /\ renderLog[i].comments = None
              /\ (~renderLog[i].raised =>
                    \E j \in 1..Len(yielded) : yielded[j][1] = renderLog[i].key)
        /\ (genState = "done" =>
              Keys(yielded) = SelectSeq(Get(searchResult), NotFailed))
        /\ (~singleCall.isNone =>
              LET c == Get(singleCall)
              IN /\ ~c.commentsCalled
                 /\ (c.renderCalled => c.renderComments = None)
                 /\ (c.renderCalled /\ ~c.renderRaised => ~c.result.isNone))

\* C13 witness: comments disabled, a stream consumed to its end that produced
\* an issue and skipped another, and a single issue that was returned
C13_Witness ==
    /\ ~include_comments
    /\ genState = "done"
    /\ yielded # << >>
    /\ FailedRenders # {}
    /\ ~singleCall.isNone
    /\ ~Get(singleCall).result.isNone

\* the direct converter call whose result convOut holds
Called(op) == (~convOut.isNone) /\ Get(convOut).op = op
ConvIssue == Get(convIn).issue
ConvComments == Get(convIn).comments
ConvResult == Get(convOut).out

\* the positions of a line in a document
Positions(d, line) == {i \in 1..Len(d) : d[i] = line}
\* the positions of the lines that start with a label
Labelled(d, label) == {i \in 1..Len(d) : d[i][1] = label}

DescriptionHeader == Positions(ConvResult.doc, Line("## Description"))
CommentsHeader == Positions(ConvResult.doc, Line("## Comments"))
AttachmentsHeader == Positions(ConvResult.doc, Line("## Attachments"))

\* C14: every document issue_to_markdown returns starts with the title line
\* (the key in brackets, then the summary), followed by the metadata block,
\* the Description header, the Comments header if there is one, the
\* Attachments header if there is one, and ends with the rule and the footer
\* line carrying the render date; each header occurs at most once and none
\* comes before one listed before it.
C14_SectionOrder ==
    (Called("issue_to_markdown") /\ ~ConvResult.raised) =>
        LET d == ConvResult.doc
            n == Len(d)
            meta == Labelled(d, "**Key:** ")
        IN /\ d[1] = << "# [", ConvIssue.key, "] ", AttrVal(ConvIssue.summary) >>
           /\ meta = {3}
           /\ Labelled(d, "**Status:** ") = {5}
           /\ Cardinality(DescriptionHeader) = 1
           /\ Cardinality(CommentsHeader) <= 1
           /\ Cardinality(AttachmentsHeader) <= 1
           /\ \A i \in DescriptionHeader :
                 /\ i > 5
                 /\ \A j \in CommentsHeader \cup AttachmentsHeader : i < j
           /\ \A i \in CommentsHeader : \A j \in AttachmentsHeader : i < j
           /\ \A i \in DescriptionHeader \cup CommentsHeader \cup AttachmentsHeader :
                 i < n - 1
           /\ d[n - 1] = Line("---")
           /\ d[n] = << "*Exported from Jira: ", Today, "*" >>

\* C14 witness: a document with all the sections, two comments and two
\* attachments
C14_Witness ==
    /\ Called("issue_to_markdown")
    /\ ~ConvResult.raised
    /\ CommentsHeader # {}
    /\ AttachmentsHeader # {}
    /\ Len(Get(ConvComments)) = 2
    /\ TruthyListAttr(ConvIssue.attachment)
    /\ Len(AttrVal(ConvIssue.attachment)) = 2

C16_HeadersFollowFlags ==
    (Called("issue_to_markdown") /\ ~ConvResult.raised) =>
        /\ DescriptionHeader # {}
        /\ (CommentsHeader # {}) <=> Get(convIn).include_comments
        /\ (AttachmentsHeader # {}) <=> Get(convIn).include_attachments

\* C17: the metadata block always starts with the key, type and status
\* lines and has exactly one assignee line, with the display name of the
\* assignee or "Unassigned" when the assignee is missing or None; it has a
\* priority, reporter, parent or sprint line exactly when that field is
\* there and not None, and a labels line exactly when there is a non-empty
\* list of labels.
C17_MetadataLines ==
    (Called("format_issue_metadata") /\ ~ConvResult.raised) =>
        LET L == ConvResult.lines
            f == ConvIssue
            present(a) == a.has /\ a # Null
            once(label, a) ==
                /\ Cardinality(Labelled(L, label)) = IF present(a) THEN 1 ELSE 0
                /\ \A i \in Labelled(L, label) : L[i] = << label, AttrVal(a) >>
        IN /\ L[1] = << "**Key:** ", f.key >>
           /\ L[2] = << "**Type:** ", AttrVal(f.issuetype) >>
           /\ L[3] = << "**Status:** ", AttrVal(f.status) >>
           /\ Cardinality(Labelled(L, "**Assignee:** ")) = 1
           /\ \A i \in Labelled(L, "**Assignee:** ") :
                 L[i] = << "**Assignee:** ",
                           IF present(f.assignee) THEN AttrVal(f.assignee)
                           ELSE "Unassigned" >>
           /\ once("**Priority:** ", f.priority)
           /\ once("**Reporter:** ", f.reporter)
           /\ once("**Sprint:** ", f.sprint)
           /\ Cardinality(Labelled(L, "**Parent:** [")) =
                 IF present(f.parent) THEN 1 ELSE 0
           /\ \A i \in Labelled(L, "**Parent:** [") :
                 L[i] = << "**Parent:** [", AttrVal(f.parent).key, "] ",
                           AttrVal(f.parent).summary >>
           /\ Cardinality(Labelled(L, "**Labels:** ")) =
                 IF present(f.labels) /\ Len(AttrVal(f.labels)) > 0 THEN 1 ELSE 0
           /\ \A i \in Labelled(L, "**Labels:** ") :
                 L[i] = << "**Labels:** ", AttrVal(f.labels) >>

\* C17 witness: an issue whose assignee is None, without a priority field,
\* with an empty list of labels, with a reporter and a parent
C17_Witness ==
    /\ Called("format_issue_metadata")
    /\ ~ConvResult.raised
    /\ ConvIssue.assignee = Null
    /\ ConvIssue.priority = Absent
    /\ ConvIssue.labels = Attr(<< >>)
    /\ ConvIssue.reporter = Attr("Bob")
    /\ ConvIssue.parent # Null /\ ConvIssue.parent # Absent
    /\ \E i \in 1..Len(ConvResult.lines) :
          ConvResult.lines[i] = << "**Assignee:** ", "Unassigned" >>

\* C18: for an issue whose description is None or empty
\* format_issue_description returns the placeholder; for an issue with a
\* description it returns the converted description: what jira_to_md makes of
\* it, or the description itself when jira_to_md fails.
C18_DescriptionOrPlaceholder ==
    (Called("format_issue_description") /\ ConvIssue.description.has) =>
        LET de == ConvIssue.description
            none == de = Null \/ de = Attr("")
        IN /\ ~ConvResult.raised
           /\ none => ConvResult.lines = << Line("_No description provided._") >>
           /\ ~none =>
                 /\ ConvResult.lines = << Line(convert_jira_markup(Some(AttrVal(de)))) >>
                 /\ ConvResult.lines =
                      << Line(IF jira_to_md(AttrVal(de)).raised THEN AttrVal(de)
                              ELSE jira_to_md(AttrVal(de)).out) >>

\* C18 witness: a description in markup came out as markdown
C18_Witness ==
    /\ Called("format_issue_description")
    /\ ConvIssue.description = Attr("*bold*")
    /\ ConvResult.lines = << Line("**bold**") >>

\* C19: for an empty (or None) comments argument format_comments returns the
\* placeholder; for N > 0 comments it returns 4 * N lines, and for each i the
\* lines of block i are the header with the author's display name ("Unknown"
\* for a comment without author) and the formatted creation time ("Unknown
\* date" for a comment without one), a blank line, the converted body, and a
\* blank line, the blocks in the order of the comments.
C19_CommentBlocks ==
    Called("format_comments") =>
        LET L == ConvResult.lines
            empty == ConvComments.isNone \/ Get(ConvComments) = << >>
            cs == Get(ConvComments)
            author(c) == IF c.author.has THEN AttrVal(c.author) ELSE "Unknown"
            created(c) == IF c.created.has THEN _format_date(AttrVal(c.created))
                          ELSE << "Unknown date" >>
        IN /\ ~ConvResult.raised
           /\ empty => L = << Line("_No comments._") >>
           /\ ~empty =>
                 /\ Len(L) = 4 * Len(cs)
                 /\ \A i \in 1..Len(cs) :
                       /\ L[4 * i - 3] = << "### ", author(cs[i]), " - ", created(cs[i]) >>
                       /\ L[4 * i - 2] = << "" >>
                       /\ L[4 * i - 1] = << convert_jira_markup(cs[i].body) >>
                       /\ L[4 * i] = << "" >>

\* C19 witness: two different comments, Alice's before Bob's, came out as two
\* blocks in that order with the formatted time and the converted body
C19_Witness ==
    /\ Called("format_comments")
    /\ ~ConvComments.isNone
    /\ Len(Get(ConvComments)) = 2
    /\ Get(ConvComments)[1].author = Attr("Alice")
    /\ Get(ConvComments)[2].author = Attr("Bob")
    /\ ConvResult.lines[1] = << "### ", "Alice", " - ", << "2025-12-11", " ", "10:30" >> >>
    /\ ConvResult.lines[3] = << "**bold**" >>
    /\ ConvResult.lines[5] = << "### ", "Bob", " - ", << "yesterday" >> >>
    /\ ConvResult.lines[7] = << "{code:unclosed" >>

\* C20: for an issue without attachments (no attachment field, None, or an
\* empty list) format_attachments returns the placeholder; otherwise it
\* returns one line per attachment in list order, with the filename, the
\* content location or "#" for an attachment without one, and the size as
\* _format_file_size gives it ("Unknown size" for an attachment without one).
C20_AttachmentLines ==
    Called("format_attachments") =>
        LET L == ConvResult.lines
            at == ConvIssue.attachment
            none == (~at.has) \/ at = Null \/ at = Attr(<< >>)
            as == AttrVal(at)
            url(a) == IF a.content.has THEN AttrVal(a.content) ELSE "#"
            size(a) == IF a.size.has THEN _format_file_size(AttrVal(a.size))
                       ELSE << "Unknown size" >>
        IN /\ ~ConvResult.raised
           /\ none => L = << Line("_No attachments._") >>
           /\ ~none =>
                 /\ Len(L) = Len(as)
                 /\ \A i \in 1..Len(as) :
                       /\ L[i] = << "- [", as[i].filename, "](", url(as[i]), ") (",
                                    size(as[i]), ")" >>
                       /\ as[i].size = Attr(500) => L[i][6] = << 500, " B" >>
                       /\ as[i].size = Attr(1536) => L[i][6] = << 1, ".", 5, " KB" >>

\* C20 witness: an attachment with a location before one without
C20_Witness ==
    /\ Called("format_attachments")
    /\ ConvIssue.attachment.has
    /\ ConvIssue.attachment # Null
    /\ Len(AttrVal(ConvIssue.attachment)) = 2
    /\ ConvResult.lines[1] = << "- [", "log.txt", "](", "http://jira/att/1", ") (",
                                << 500, " B" >>, ")" >>
    /\ ConvResult.lines[2] = << "- [", "shot.png", "](", "#", ") (",
                                << 1, ".", 5, " KB" >>, ")" >>

\* the text `t` shows the byte count `size` in the unit of unitKib * 1024
\* bytes with the given suffix: one decimal digit, the tenth nearest to
\* size / unit
ShownIn(t, size, unitKib, suffix) ==
    /\ Len(t) = 4
    /\ t[2] = "."
    /\ t[3] \in 0..9
    /\ t[4] = suffix
    /\ LET a == (10 * size.rem) \div KB
           b == (10 * size.rem) % KB
           m == 10 * size.kib + a
           d == (m - (10 * t[1] + t[3]) * unitKib) * KB + b
       IN d <= unitKib * 512 /\ -d <= unitKib * 512

\* the unit follows the binary thresholds
SizeUnitByThreshold(t, size) ==
    /\ size.kib = 0 => t = << size.rem, " B" >>
    /\ (1 <= size.kib /\ size.kib < KB) => ShownIn(t, size, 1, " KB")
    /\ (KB <= size.kib /\ size.kib < MB) => ShownIn(t, size, KB, " MB")
    /\ MB <= size.kib => ShownIn(t, size, MB, " GB")

\* 500, 5120, 3145728 and 2147483648 bytes
SizeExamples(t, size) ==
    /\ size = Bytes(0, 500) => t = << 500, " B" >>
    /\ size = Bytes(5, 0) => t = << 5, ".", 0, " KB" >>
    /\ size = Bytes(3 * KB, 0) => t = << 3, ".", 0, " MB" >>
    /\ size = Bytes(2 * MB, 0) => t = << 2, ".", 0, " GB" >>

\* C21 as stated: the unit follows the binary thresholds, the value is the
\* count divided by the unit with one decimal, the value shown with KB or MB
\* is always below 1024, and the four examples come out as given.
C21_SizeBelowNextUnit ==
    Called("_format_file_size") =>
        LET t == ConvResult
            size == Get(convIn).size
        IN /\ SizeUnitByThreshold(t, size)
           /\ SizeExamples(t, size)
           /\ (size.kib >= 1 /\ size.kib < MB) => t[1] < 1024

\* C21 as amended: the unit follows the binary thresholds, the value is the
\* count divided by the unit with one decimal, the value shown with KB or MB
\* is at most 1024.0, and the four examples come out as given.
C21_SizeUnits ==
    Called("_format_file_size") =>
        LET t == ConvResult
            size == Get(convIn).size
        IN /\ SizeUnitByThreshold(t, size)
           /\ SizeExamples(t, size)
           /\ (size.kib >= 1 /\ size.kib < MB) =>
                 (t[1] < 1024 \/ (t[1] = 1024 /\ t[3] = 0))

\* C21 witness: one byte less than 1024 * 1024 comes out as 1024.0 KB
C21_Witness ==
    /\ Called("_format_file_size")
    /\ Get(convIn).size = Bytes(KB - 1, 1023)
    /\ ConvResult = << 1024, ".", 0, " KB" >>


\* C22: _format_date never raises: a string that does not parse as a
\* timestamp is returned unchanged, a timestamp is returned as its own date,
\* hour and minute without conversion to another zone; and no created or
\* updated value makes format_issue_metadata or format_comments raise.
C22_DateNeverRaises ==
    /\ Called("_format_date") =>
          LET d == Get(convIn).date
              parsed == fromisoformat(ReplaceZ(d))
          IN /\ ~ConvResult.raised
             /\ parsed.raised => ConvResult.out = d
             /\ ~parsed.raised => ConvResult.out = << d[1], " ", d[3] >>
    /\ Called("format_issue_metadata") =>
          /\ ConvResult.raised =>
                (~HasAttr(ConvIssue.issuetype) \/ ~HasAttr(ConvIssue.status))
          /\ (~ConvResult.raised /\ ConvIssue.created = Attr(DateBad)) =>
                Positions(ConvResult.lines, << "**Created:** ", DateBad >>) # {}
          /\ (~ConvResult.raised /\ ConvIssue.updated = Attr(DateBad)) =>
                Positions(ConvResult.lines, << "**Updated:** ", DateBad >>) # {}
    /\ Called("format_comments") => ~ConvResult.raised

\* C22 witness: a string that is no timestamp came back unchanged
C22_Witness ==
    /\ Called("_format_date")
    /\ Get(convIn).date = DateBad
    /\ ~ConvResult.raised
    /\ ConvResult.out = DateBad

\* C23: convert_jira_markup never raises: when jira_to_md raises it returns
\* the text it was given; for None and for the empty string it returns the
\* empty string and jira_to_md is not invoked.
C23_MarkupNeverRaises ==
    Called("convert_jira_markup") =>
        LET text == Get(convIn).text
        IN /\ ~ConvResult.raised
           /\ (text.isNone \/ Get(text) = "") =>
                 (ConvResult.out = "" /\ ~ConvResult.invoked)
           /\ (~text.isNone /\ Get(text) # "") =>
                 /\ ConvResult.invoked
                 /\ jira_to_md(Get(text)).raised => ConvResult.out = Get(text)
                 /\ ~jira_to_md(Get(text)).raised =>
                       ConvResult.out = jira_to_md(Get(text)).out

\* C23 witness: jira_to_md raised on a malformed text and the text came back
C23_Witness ==
    /\ Called("convert_jira_markup")
    /\ Get(convIn).text = Some("{code:unclosed")
    /\ jira_to_md("{code:unclosed").raised
    /\ ConvResult.invoked
    /\ ~ConvResult.raised
    /\ ConvResult.out = "{code:unclosed"

\* what a session is given when it is built from these field values
BuiltFrom(st) ==
    [server |-> st.jira_url, basic_auth |-> << st.jira_email, st.jira_api_token >>]

\* C24 as stated: the settings never hold other values than those they were
\* constructed with, and every session is built from the constructed values.
C24_SettingsImmutable ==
    /\ settings = Constructed
    /\ \A n \in 1..Len(sessionArgs) : sessionArgs[n] = BuiltFrom(Constructed)

\* C24, amended: the fields of the settings change only when a caller
\* assigns one, never by a step of the client; every session is built from
\* the values the settings hold when connect runs, and the arguments of a
\* session already built do not change.
C24_SettingsReadAtConnect ==
    [][ /\ (sessionVars' # sessionVars \/ probeVars' # probeVars) =>
              settings' = settings
        /\ \A n \in 1..Len(sessionArgs) :
              n <= Len(sessionArgs') /\ sessionArgs'[n] = sessionArgs[n]
        /\ \A n \in (Len(sessionArgs) + 1)..Len(sessionArgs') :
              sessionArgs'[n] = BuiltFrom(settings) ]_vars

\* C24 witness: the client holds a session built from a URL and a token
\* that were assigned after the settings were constructed
C24_Witness ==
    /\ _client # 0
    /\ _client \in handshaken
    /\ settings.jira_url = "https://new.atlassian.net"
    /\ settings.jira_api_token = "new-token"
    /\ sessionArgs[_client] = BuiltFrom(settings)
    /\ sessionArgs[_client] # BuiltFrom(Constructed)

\* C25: within one search the page requests have the offsets 0, 100, 200,
\* ... in this order, each once and each of page size 100; a request other
\* than the first follows a request that succeeded with a batch of exactly
\* 100 records which did not bring the accumulated count to the limit.
C25_PageRequests ==
    \A i \in 1..Len(requestLog) :
        /\ requestLog[i].startAt = (i - 1) * batch_size
        /\ requestLog[i].maxResults = batch_size
        /\ i > 1 =>
              /\ requestLog[i - 1].error = "none"
              /\ Len(ServicePage(requestLog[i - 1].startAt, batch_size)) = batch_size
              /\ ~max_results.isNone => (i - 1) * batch_size < Get(max_results)

\* C26: in a process_issues run the search is started once, by the first
\* request for an element; every page request is made before any comment
\* fetch, conversion or yield, and the search has returned before the first
\* comment fetch or conversion.
C26_SearchBeforeItems ==
    /\ [](genState # "none" =>
            /\ (genState = "created") = (searchPc = "idle")
            /\ (commentLog # << >> \/ renderLog # << >> \/ yielded # << >>) =>
                  searchPc = "returned")
    /\ [][genState' # "none" =>
            /\ (searchPc # "loop" /\ searchPc' = "loop") => genState = "created"
            /\ requestLog' # requestLog =>
                  /\ genState = "running" /\ genPc = "search"
                  /\ commentLog = << >> /\ renderLog = << >> /\ yielded = << >>
            /\ (commentLog' # commentLog \/ renderLog' # renderLog
                  \/ yielded' # yielded) =>
                  /\ searchPc = "returned"
                  /\ UNCHANGED searchVars]_vars

\* C26 witness: the first element was yielded after a search of two page
\* requests and one comment fetch
C26_Witness ==
    /\ genState = "suspended"
    /\ Len(yielded) = 1
    /\ Len(requestLog) = 2
    /\ Len(commentLog) = 1
    /\ Len(renderLog) = 1

\* the largest number of page requests of a search over T issues: with no
\* limit floor(T / 100) + 1, with a limit K >= 1 ceil(K / 100)
RequestBound(T, limit) ==
    IF limit.isNone THEN T \div 100 + 1 ELSE (Get(limit) + 99) \div 100

\* C27: a search makes at most floor(total / 100) + 1 page requests with no
\* limit and at most ceil(K / 100) with a limit K >= 1, every iteration that
\* does not end the search having made one more request; a process_issues
\* run consumed to exhaustion over a result of N issues has made at most N
\* comment fetches and exactly N conversions.
C27_BoundedRequests ==
    /\ []((max_results.isNone \/ Get(max_results) >= 1) =>
            Len(requestLog) <= RequestBound(total, max_results))
    /\ [](genState = "done" =>
            /\ Len(commentLog) <= Len(Get(searchResult))
            /\ Len(renderLog) = Len(Get(searchResult)))
    /\ [][(searchPc = "loop" /\ searchPc' = "loop") =>
            Len(requestLog') = Len(requestLog) + 1]_vars

\* C27 witness: a search limited to one issue over a store of 201 returned
\* after its only page request, and the run over its result was consumed to
\* exhaustion with one comment fetch and one conversion
C27_Witness ==
    /\ total = 2 * batch_size + 1
    /\ max_results = Some(1)
    /\ searchPc = "returned"
    /\ Len(requestLog) = RequestBound(total, max_results)
    /\ genState = "done"
    /\ Len(renderLog) = 1
    /\ Len(commentLog) = 1

\* C28: a connection attempt that raises, whether in the construction of
\* the session or in the server_info handshake, leaves the client holding
\* no session, so that the client never holds a session whose handshake did
\* not succeed.
C28_NoSessionAfterFailure ==
    /\ [](_client # 0 => _client \in handshaken)
    /\ [][(connectAttempts' = connectAttempts + 1 /\ handshaken' = handshaken)
            => _client' = 0]_vars

\* the comment fetch of process_issues for this key: whether it was made,
\* and its outcome
FetchOf(key) == {i \in 1..Len(commentLog) : commentLog[i].key = key}

C30_SingleCommentFailure ==
    ~singleCall.isNone =>
        LET c == Get(singleCall)
        IN /\ c.commentsError # "none" =>
                 /\ c.commentsCalled
                 /\ c.renderCalled
                 /\ c.renderComments = Some(<< >>)
                 /\ ~c.renderRaised =>
                       /\ c.raised = "none"
                       /\ ~c.result.isNone
                       /\ \A n \in 1..Len(yielded) :
                             (/\ yielded[n][1] = c.key
                              /\ \E i \in FetchOf(c.key) :
                                    commentLog[i].error # "none") =>
                                 yielded[n][2] = Get(c.result)[2]
           /\ ~c.result.isNone => Get(c.result)[1] = c.key

\* C30 witness: the stream yielded an issue after a failed comment fetch and
\* the single-issue call returned the same document for it after a failed
\* comment fetch of its own
C30_Witness ==
    /\ ~singleCall.isNone
    /\ Get(singleCall).commentsError # "none"
    /\ Get(singleCall).raised = "none"
    /\ ~Get(singleCall).result.isNone
    /\ \E n \in 1..Len(yielded) :
          /\ yielded[n] = Get(Get(singleCall).result)
          /\ \E i \in FetchOf(yielded[n][1]) : commentLog[i].error # "none"

====
